---- MODULE Spec2Model ----
(***************************************************************************)
(* Model of onmount (src/index.js): a registry of behaviors (selector,     *)
(* init, exit, options) kept in step with the nodes of a document.         *)
(*                                                                         *)
(* The JavaScript runs single-threaded; an init or exit callback is user   *)
(* code, which can return a value, raise, or call back into onmount.  The  *)
(* model therefore keeps the call stack of the library explicitly: a       *)
(* public call pushes a frame and runs the library's own code (Go) up to   *)
(* the next call of a callback or to its return; while a callback frame is *)
(* on top the environment decides what the callback does, and its return   *)
(* resumes the library's code in the same way.                             *)
(***************************************************************************)
EXTENDS Integers, Sequences, FiniteSets, TLC

\* ---- bounds of the model ------------------------------------------------
NumNodes == 2        \* elements that exist besides document.documentElement
MaxBid == 2          \* behaviors constructed in one run
MaxCid == 2          \* init callbacks veto once cid has reached this
MaxCount == 2        \* the history counters stop counting here
MaxObservers == 2    \* MutationObserver objects constructed in one run
MaxRecords == 1      \* mutation records pending in one observer
MaxDepth == 1        \* public calls made from inside callbacks, nested

\* ---- values ---------------------------------------------------------------
Nodes == 1..NumNodes
Root == 0                      \* document.documentElement
Null == -1                     \* parentElement === null
undefined == -2                \* an array slot set to undefined
SelectorNames == {".a", ".b"}  \* selectors behaviors are registered under
NoArg == "undefined"           \* the selector argument left out
NoTag == [id |-> -1, selector |-> NoArg]   \* el[key] === undefined

VARIABLES
  parent,            \* el.parentElement of every node (Root, Null or a node)
  classes,           \* the selectors each node matches (el.matches)
  objs,              \* every Behavior ever constructed; objs[k] has key k
  behaviors,         \* module variable `behaviors`: sequence of keys
  handlers,          \* module variable `handlers`: closures, one per key
  selectors,         \* module variable `selectors`: selector -> closures
  bid, cid,          \* module counters
  tags,              \* tags[el][key] is el['__onmount:' + key]
  MutationObserver,  \* whether onmount.MutationObserver is defined
  observers,         \* every observer constructed: connected flag and queue
  observer,          \* onmount.observer: index into observers, 0 when absent
  stack,             \* the call stack, top last
  result,            \* what the last completed public call returned
  enterCnt, exitCnt, \* (history) init / exit invocations in the current run
  run,               \* (history) the current run of public calls
  log                \* (history) which (behavior, node) pairs are entered

prog == <<parent, classes, objs, behaviors, handlers, selectors, bid, cid,
          tags, MutationObserver, observers, observer>>
hist == <<enterCnt, exitCnt, run, log>>
vars == <<prog, stack, result, hist>>

\* ---- frames ----------------------------------------------------------------
Frame(pc, be, el, i, len, list, muts, opt) ==
  [pc |-> pc, be |-> be, el |-> el, i |-> i, len |-> len, list |-> list,
   muts |-> muts, opt |-> opt]

Top == stack[Len(stack)]
Idle == stack = <<>>

\* ---- the document (external collaborator) ---------------------------------
RECURSIVE isAttached(_)
isAttached(el) ==
  IF el = Null THEN FALSE
  ELSE IF el = Root THEN TRUE
  ELSE isAttached(parent[el])

matches(el, selector) == selector \in classes[el]

RECURSIVE Path(_)
Path(el) == IF parent[el] \in Nodes THEN Append(Path(parent[el]), el) ELSE <<el>>

\* document order: a node comes after its ancestors; siblings by number
RECURSIVE SeqBefore(_, _)
SeqBefore(s, t) ==
  IF s = <<>> THEN t # <<>>
  ELSE IF t = <<>> THEN FALSE
  ELSE IF Head(s) # Head(t) THEN Head(s) < Head(t)
  ELSE SeqBefore(Tail(s), Tail(t))

RECURSIVE InDocOrder(_)
InDocOrder(S) ==
  IF S = {} THEN <<>>
  ELSE LET m == CHOOSE x \in S : \A y \in S \ {x} : SeqBefore(Path(x), Path(y))
       IN <<m>> \o InDocOrder(S \ {m})

query(selector) ==
  InDocOrder({el \in Nodes : isAttached(el) /\ matches(el, selector)})

has(list, el) == \E k \in DOMAIN list : list[k] = el

\* Array.prototype.indexOf, 1-based; 0 stands for JavaScript's -1
indexOf(list, el) ==
  IF has(list, el) THEN CHOOSE k \in DOMAIN list :
                          list[k] = el /\ \A j \in 1..(k - 1) : list[j] # el
  ELSE 0

Falsy(selector) == selector \in {"", NoArg}

Keys == 1..MaxBid

\* ---- the machine: what the library's code reads and writes while it runs --
Now ==
  [stack |-> stack, objs |-> objs, tags |-> tags, cid |-> cid,
   result |-> result, enterCnt |-> enterCnt, exitCnt |-> exitCnt, run |-> run,
   log |-> log]

Becomes(m) ==
  /\ stack' = m.stack
  /\ objs' = m.objs
  /\ tags' = m.tags
  /\ cid' = m.cid
  /\ result' = m.result
  /\ enterCnt' = m.enterCnt
  /\ exitCnt' = m.exitCnt
  /\ run' = m.run
  /\ log' = m.log

TopOf(m) == m.stack[Len(m.stack)]
Pop(m) == [m EXCEPT !.stack = SubSeq(@, 1, Len(@) - 1)]
Push(m, f) == [m EXCEPT !.stack = Append(@, f)]
Advance(m) == [m EXCEPT !.stack[Len(m.stack)].i = @ + 1]
InCallback(m) == m.stack # <<>> /\ TopOf(m).pc \in {"init", "exit"}

\* ---- history bookkeeping (not program state) ------------------------------
Zero == [k \in Keys |-> [el \in Nodes |-> 0]]
Bump(cnt, k, el) == [cnt EXCEPT ![k][el] = IF @ < MaxCount THEN @ + 1 ELSE @]
\* the counters and the run's sets are kept for runs of polls and of teardowns
InRun(m) == m.run.kind \in {"poll", "teardown"}

active(k) ==
  IF k \in DOMAIN objs
  THEN {objs[k].loaded[j] : j \in DOMAIN objs[k].loaded} \ {undefined}
  ELSE {}
tagged(k) == {el \in Nodes : tags[el][k] # NoTag}

Count(n) == IF n < MaxCount THEN n + 1 ELSE n

\* run: kind of the public calls of the run, how many there were and with which
\* selector argument (Mixed when they differ); passes[k]: completed runs of k's poll closure; veto:
\* the pairs <<k, el>> whose init returned false in the run; last: those whose
\* latest init returned false; active0, tag0: the entered and the tagged nodes
\* when the run began; list0[k], loaded0[k]: the query result and the active
\* list when the first pass of k's poll closure in the run began; changed:
\* a callback of the run changed the document or raised, which ends the run
Mixed == "mixed"
RunIdle ==
  [kind |-> "idle", calls |-> 0, arg |-> NoArg, passes |-> [k \in Keys |-> 0],
   veto |-> {}, last |-> {},
   active0 |-> [k \in Keys |-> {}], tag0 |-> [k \in Keys |-> {}],
   list0 |-> [k \in Keys |-> <<>>], loaded0 |-> [k \in Keys |-> <<>>],
   changed |-> FALSE]
NewRun(kind, arg) ==
  [kind |-> kind, calls |-> 1, arg |-> arg, passes |-> [k \in Keys |-> 0],
   veto |-> {}, last |-> {},
   active0 |-> [k \in Keys |-> active(k)], tag0 |-> [k \in Keys |-> tagged(k)],
   list0 |-> [k \in Keys |-> <<>>], loaded0 |-> [k \in Keys |-> <<>>],
   changed |-> FALSE]

\* a public call of `kind` starts: consecutive polls (or teardowns) form one run
Begin(kind, arg) ==
  IF kind \in {"poll", "teardown"} /\ run.kind = kind /\ ~run.changed
  THEN [Now EXCEPT !.result = "undefined", !.run.calls = Count(@),
                   !.run.arg = IF @ = arg THEN @ ELSE Mixed]
  ELSE [Now EXCEPT !.result = "undefined",
                   !.run = IF kind \in {"poll", "teardown"}
                           THEN NewRun(kind, arg)
                           ELSE [RunIdle EXCEPT !.kind = kind],
                   !.enterCnt = Zero, !.exitCnt = Zero]

\* log.live: the pairs whose latest completed action was an accepted init;
\* log.paired: no exit was called for a pair not live, no init accepted for a
\* live one; log.refused: the pairs whose latest exit returned false
InitCalled(m, k, el) ==
  [m EXCEPT !.enterCnt = IF InRun(m) THEN Bump(@, k, el) ELSE @]
PassBegun(m, k) ==
  IF InRun(m) /\ m.run.calls = 1 /\ m.run.passes[k] = 0
  THEN [m EXCEPT !.run.list0[k] = query(m.objs[k].selector),
                 !.run.loaded0[k] = m.objs[k].loaded]
  ELSE m
PassDone(m, k) ==
  [m EXCEPT !.run.passes[k] = IF InRun(m) THEN Count(@) ELSE @]
InitAccepted(m, k, el) ==
  [m EXCEPT !.log.paired = @ /\ <<k, el>> \notin m.log.live,
            !.log.live = @ \cup {<<k, el>>},
            !.run.last = @ \ {<<k, el>>}]
InitVetoed(m, k, el) ==
  IF InRun(m)
  THEN [m EXCEPT !.run.veto = @ \cup {<<k, el>>}, !.run.last = @ \cup {<<k, el>>}]
  ELSE m
ExitCalled(m, k, el) ==
  [m EXCEPT !.log.paired = @ /\ <<k, el>> \in m.log.live,
            !.log.live = @ \ {<<k, el>>},
            !.exitCnt = IF InRun(m) THEN Bump(@, k, el) ELSE @]
ExitAccepted(m, k, el) == [m EXCEPT !.log.refused = @ \ {<<k, el>>}]
ExitRefused(m, k, el) == [m EXCEPT !.log.refused = @ \cup {<<k, el>>}]

\* a step of the environment that is no call into the library
EndRun ==
  /\ run' = RunIdle /\ enterCnt' = Zero /\ exitCnt' = Zero
  /\ UNCHANGED log

\* ---- Behavior -------------------------------------------------------------
\* (mutant) Behavior leaving its state under one key shared by all behaviors
BehaviorSharedKey(selector, exit, detectMutate) ==
  [id |-> bid, selector |-> selector, exit |-> exit, loaded |-> <<>>,
   key |-> 1, detectMutate |-> detectMutate]

Behavior(selector, exit, detectMutate) ==
  [id |-> bid, selector |-> selector, exit |-> exit, loaded |-> <<>>,
   key |-> bid + 1, detectMutate |-> detectMutate]

\* (mutant) visitEnter without its `if (el[this.key]) return`
visitEnterUnguarded(m, k, el) ==
  InitCalled(Push(m, Frame("init", k, el, 0, 0, <<>>, <<>>,
                          [id |-> m.cid, selector |-> m.objs[k].selector])),
             k, el)

\* visitEnter up to the call of init
visitEnter(m, k, el) ==
  IF m.tags[el][m.objs[k].key] # NoTag
  THEN m
  ELSE InitCalled(Push(m, Frame("init", k, el, 0, 0, <<>>, <<>>,
                               [id |-> m.cid, selector |-> m.objs[k].selector])),
                  k, el)

\* (mutant) visitEnter tagging the node whatever init returned
initReturnedIgnored(m, r) ==
  LET f == TopOf(m)
      m1 == IF r # "false" THEN InitAccepted(Pop(m), f.be, f.el)
            ELSE InitVetoed(Pop(m), f.be, f.el)
  IN [m1 EXCEPT !.tags[f.el][m.objs[f.be].key] = f.opt,
                !.objs[f.be].loaded = Append(@, f.el),
                !.cid = @ + 1]

\* the rest of visitEnter, once init has returned r
initReturned(m, r) ==
  LET f == TopOf(m)
  IN IF r # "false"
     THEN [InitAccepted(Pop(m), f.be, f.el)
             EXCEPT !.tags[f.el][m.objs[f.be].key] = f.opt,
                    !.objs[f.be].loaded = Append(@, f.el),
                    !.cid = @ + 1]
     ELSE InitVetoed(Pop(m), f.be, f.el)

\* (mutant) doExit without its `this.loaded[i] = undefined`
TombstoneMissing(loaded, i) == loaded

\* loaded[i] = undefined; an index outside the array leaves its elements alone
Tombstone(loaded, i) ==
  IF i \in DOMAIN loaded THEN [loaded EXCEPT ![i] = undefined] ELSE loaded

\* doExit up to the call of exit; i = NoIndex when the caller passes no index
NoIndex == -1

\* (mutant) doExit calling exit before it sets loaded[i] to undefined
doExitBeforeTombstone(m, k, el, i) ==
  IF m.objs[k].exit
  THEN ExitCalled(Push(m, Frame("exit", k, el, 0, 0, <<>>, <<>>,
                                m.tags[el][m.objs[k].key])), k, el)
  ELSE [m EXCEPT !.objs[k].loaded =
                   Tombstone(@, IF i = NoIndex THEN indexOf(@, el) ELSE i)]

doExit(m, k, el, i) ==
  LET at == IF i = NoIndex THEN indexOf(m.objs[k].loaded, el) ELSE i
      m1 == [m EXCEPT !.objs[k].loaded = Tombstone(@, at)]
  IN IF m.objs[k].exit
     THEN ExitCalled(Push(m1, Frame("exit", k, el, 0, 0, <<>>, <<>>,
                                    m.tags[el][m.objs[k].key])), k, el)
     ELSE m1

\* (mutant) doExit deleting the tag whatever exit returned
exitReturnedCleared(m, r) ==
  LET f == TopOf(m)
      m1 == IF r # "false" THEN ExitAccepted(Pop(m), f.be, f.el)
            ELSE ExitRefused(Pop(m), f.be, f.el)
  IN [m1 EXCEPT !.tags[f.el][m.objs[f.be].key] = NoTag]

\* the rest of doExit, once exit has returned r
exitReturned(m, r) ==
  LET f == TopOf(m)
  IN IF r # "false"
     THEN [ExitAccepted(Pop(m), f.be, f.el)
             EXCEPT !.tags[f.el][m.objs[f.be].key] = NoTag]
     ELSE ExitRefused(Pop(m), f.be, f.el)

\* (mutant) visitExit testing attachment whatever detectMutate says
visitExitAttachedOnly(m, k, el, i, list) ==
  IF el = undefined THEN m
  ELSE IF ~isAttached(el) THEN doExit(m, k, el, i) ELSE m

visitExit(m, k, el, i, list) ==
  IF el = undefined THEN m
  ELSE IF m.objs[k].detectMutate
       THEN (IF ~has(list, el) THEN doExit(m, k, el, i) ELSE m)
       ELSE (IF ~isAttached(el) THEN doExit(m, k, el, i) ELSE m)

\* ---- Behavior.prototype.register: the poll closure -----------------------
\* var list = query(selector), then each(loaded, ...) reads loaded.length
Closure(m, k) ==
  Frame("visitExit", k, undefined, 1, Len(m.objs[k].loaded),
        query(m.objs[k].selector), <<>>, NoTag)

\* each(loaded, function (element, i) { be.visitExit(element, i, list) })
eachLoaded(m) ==
  LET f == TopOf(m)
  IN IF f.i > f.len
     THEN Push(Pop(m), [f EXCEPT !.pc = "visitEnter", !.i = 1, !.len = Len(f.list)])
     ELSE visitExit(Advance(m), f.be, m.objs[f.be].loaded[f.i], f.i, f.list)

\* (mutant) eachOf going through the list from its end
eachOfListReversed(m) ==
  LET f == TopOf(m)
  IN IF f.i > f.len
     THEN PassDone(Pop(m), f.be)
     ELSE visitEnter(Advance(m), f.be, f.list[f.len + 1 - f.i])

\* eachOf(list, function (element) { be.visitEnter(element) })
eachOfList(m) ==
  LET f == TopOf(m)
  IN IF f.i > f.len
     THEN PassDone(Pop(m), f.be)
     ELSE visitEnter(Advance(m), f.be, f.list[f.i])

\* ---- onmount.poll ---------------------------------------------------------
poll(selector) ==
  Frame("poll", 0, undefined, 1, 0,
        IF ~Falsy(selector)
        THEN (IF selector \in DOMAIN selectors THEN selectors[selector] ELSE <<>>)
        ELSE handlers,
        <<>>, NoTag)

\* each(functions, function (fn) { fn() })
eachFunction(m) ==
  LET f == TopOf(m)
  IN IF f.i > Len(f.list) THEN Pop(m)
     ELSE Push(PassBegun(Advance(m), f.list[f.i]), Closure(m, f.list[f.i]))

\* ---- onmount.teardown ----------------------------------------------------
teardown == Frame("teardown", 0, undefined, 1, 0, behaviors, <<>>, NoTag)

\* each(behaviors, function (be) { each(be.loaded, ...) })
eachBehavior(m) ==
  LET f == TopOf(m)
  IN IF f.i > Len(f.list) THEN Pop(m)
     ELSE Push(Advance(m),
               Frame("teardownLoaded", f.list[f.i], undefined, 1,
                     Len(m.objs[f.list[f.i]].loaded), <<>>, <<>>, NoTag))

\* (mutant) teardown exiting only the nodes a poll would exit
eachTeardownLoadedDetached(m) ==
  LET f == TopOf(m)
      el == m.objs[f.be].loaded[f.i]
  IN IF f.i > f.len THEN Pop(m)
     ELSE visitExit(Advance(m), f.be, el, f.i, query(m.objs[f.be].selector))

\* each(be.loaded, function (el, i) { if (el) be.doExit(el, i) })
eachTeardownLoaded(m) ==
  LET f == TopOf(m)
      el == m.objs[f.be].loaded[f.i]
  IN IF f.i > f.len THEN Pop(m)
     ELSE IF el # undefined THEN doExit(Advance(m), f.be, el, f.i)
     ELSE Advance(m)

\* ---- the MutationObserver callback of onmount.observe --------------------
\* each(behaviors, function (be) { each(mutations, ...) })
eachObserved(m) ==
  LET f == TopOf(m)
  IN IF f.i > Len(f.list) THEN Pop(m)
     ELSE Push(Advance(m),
               Frame("mutation", f.list[f.i], undefined, 1, Len(f.muts),
                     <<>>, f.muts, NoTag))

\* one mutation record: its addedNodes, or its removedNodes
eachMutation(m) ==
  LET f == TopOf(m)
      rec == f.muts[f.i]
  IN IF f.i > f.len THEN Pop(m)
     ELSE IF ~matches(rec.el, m.objs[f.be].selector) THEN Advance(m)
     ELSE IF rec.kind = "added" THEN visitEnter(Advance(m), f.be, rec.el)
     ELSE doExit(Advance(m), f.be, rec.el, NoIndex)

\* onmount.observe after onmount() has returned: return true
observeReturns(m) == [Pop(m) EXCEPT !.result = "true"]

\* ---- running the library's code ------------------------------------------
Step(m) ==
  LET pc == TopOf(m).pc
  IN CASE pc = "poll" -> eachFunction(m)
       [] pc = "visitExit" -> eachLoaded(m)
       [] pc = "visitEnter" -> eachOfList(m)
       [] pc = "teardown" -> eachBehavior(m)
       [] pc = "teardownLoaded" -> eachTeardownLoaded(m)
       [] pc = "mutations" -> eachObserved(m)
       [] pc = "mutation" -> eachMutation(m)
       [] pc = "observe" -> observeReturns(m)

\* run until a callback is called or the public call returns
RECURSIVE Go(_)
Go(m) == IF m.stack = <<>> \/ InCallback(m) THEN m ELSE Go(Step(m))

Fixed == <<parent, classes, behaviors, handlers, selectors, bid,
           MutationObserver, observers, observer>>

\* ---- onmount(...) ---------------------------------------------------------
\* onmount(): trigger all behaviors
PollAll ==
  /\ Idle
  /\ Becomes(Go(Push(Begin("poll", NoArg), poll(NoArg))))
  /\ UNCHANGED Fixed

\* onmount(selector): trigger the behaviors of one selector
PollSelector(selector) ==
  /\ Idle
  /\ Becomes(Go(Push(Begin("poll", selector), poll(selector))))
  /\ UNCHANGED Fixed

\* function register (selector, fn)
register(selector, k) ==
  /\ selectors' = [selectors EXCEPT ![selector] = Append(@, k)]
  /\ handlers' = Append(handlers, k)

\* onmount(selector, init, [exit], [options]): register a behavior
Register(selector, exit, detectMutate) ==
  /\ Idle /\ bid < MaxBid
  /\ LET be == Behavior(selector, exit, detectMutate)
     IN /\ objs' = Append(objs, be)
        /\ bid' = bid + 1
        /\ behaviors' = Append(behaviors, be.key)
        /\ register(selector, be.key)
  /\ EndRun
  /\ result' = "undefined"
  /\ UNCHANGED <<parent, classes, cid, tags, MutationObserver, observers,
                 observer, stack>>

Teardown ==
  /\ Idle
  /\ Becomes(Go(Push(Begin("teardown", NoArg), teardown)))
  /\ UNCHANGED Fixed

\* ---- onmount.reset -------------------------------------------------------
\* (mutant) reset emptying `behaviors` only
ResetBehaviorsOnly ==
  /\ Idle
  /\ behaviors' = <<>>
  /\ EndRun
  /\ result' = "undefined"
  /\ UNCHANGED <<parent, classes, objs, handlers, selectors, bid, cid, tags,
                 MutationObserver, observers, observer, stack>>

Reset ==
  /\ Idle
  /\ handlers' = <<>>
  /\ selectors' = [s \in SelectorNames |-> <<>>]
  /\ behaviors' = <<>>
  /\ EndRun
  /\ result' = "undefined"
  /\ UNCHANGED <<parent, classes, objs, bid, cid, tags, MutationObserver,
                 observers, observer, stack>>

\* ---- onmount.observe / onmount.unobserve ---------------------------------
\* (mutant) observe without its `typeof MutationObserver === 'undefined'` test
ObserveUnchecked ==
  /\ Idle
  /\ Len(observers) < MaxObservers
  /\ observers' = Append(observers, [connected |-> TRUE, queue |-> <<>>])
  /\ observer' = Len(observers) + 1
  /\ Becomes(Go(Push(Push(Begin("observe", NoArg),
                          Frame("observe", 0, undefined, 0, 0, <<>>, <<>>,
                                NoTag)),
                     poll(NoArg))))
  /\ UNCHANGED <<parent, classes, behaviors, handlers, selectors, bid,
                 MutationObserver>>

Observe ==
  /\ Idle
  /\ IF ~MutationObserver
     THEN /\ Becomes([Now EXCEPT !.result = "undefined",
                                 !.run = [RunIdle EXCEPT !.kind = "observe"],
                                 !.enterCnt = Zero, !.exitCnt = Zero])
          /\ UNCHANGED <<observers, observer>>
     ELSE /\ Len(observers) < MaxObservers
          /\ observers' = Append(observers, [connected |-> TRUE, queue |-> <<>>])
          /\ observer' = Len(observers) + 1
          /\ Becomes(Go(Push(Push(Begin("observe", NoArg),
                                  Frame("observe", 0, undefined, 0, 0, <<>>,
                                        <<>>, NoTag)),
                             poll(NoArg))))
  /\ UNCHANGED <<parent, classes, behaviors, handlers, selectors, bid,
                 MutationObserver>>

Unobserve ==
  /\ Idle
  /\ IF observer = 0
     THEN UNCHANGED <<observers, observer>>
     ELSE /\ observers' = [observers EXCEPT ![observer] =
                             [connected |-> FALSE, queue |-> <<>>]]
          /\ observer' = 0
  /\ EndRun
  /\ result' = "undefined"
  /\ UNCHANGED <<parent, classes, objs, behaviors, handlers, selectors, bid,
                 cid, tags, MutationObserver, stack>>

\* the MutationObserver callback is handed the records queued for observer o
Notify(o) ==
  /\ Idle
  /\ o \in DOMAIN observers
  /\ observers[o].connected
  /\ observers[o].queue # <<>>
  /\ observers' = [observers EXCEPT ![o].queue = <<>>]
  /\ Becomes(Go(Push(Begin("notify", NoArg),
                     Frame("mutations", 0, undefined, 1, 0, behaviors,
                           observers[o].queue, NoTag))))
  /\ UNCHANGED <<parent, classes, behaviors, handlers, selectors, bid,
                 MutationObserver, observer>>

\* ---- callbacks (environment) ---------------------------------------------
\* the running init callback returns r; it vetoes once MaxCid enters are done
InitReturns(r) ==
  /\ InCallback(Now) /\ Top.pc = "init"
  /\ r # "false" => cid < MaxCid
  /\ Becomes(Go(initReturned(Now, r)))
  /\ UNCHANGED Fixed

\* the running exit callback returns r
ExitReturns(r) ==
  /\ InCallback(Now) /\ Top.pc = "exit"
  /\ Becomes(Go(exitReturned(Now, r)))
  /\ UNCHANGED Fixed

\* (mutant) a failure of the callback swallowed: the loop goes on
RaisesSwallowed ==
  /\ InCallback(Now)
  /\ Becomes(Go([Pop(Now) EXCEPT !.result = "raised", !.run.changed = TRUE]))
  /\ UNCHANGED Fixed

\* the running init or exit callback raises: nothing in the library catches
\* it, every frame is left and the caller of the public call gets the failure
Raises ==
  /\ InCallback(Now)
  /\ stack' = <<>>
  /\ result' = "raised"
  /\ run' = [run EXCEPT !.changed = TRUE]
  /\ UNCHANGED <<prog, enterCnt, exitCnt, log>>

\* the running init or exit callback changes the class of a node
CallbackToggle(el, selector) ==
  /\ InCallback(Now)
  /\ classes' = [classes EXCEPT ![el] =
                   IF selector \in @ THEN @ \ {selector} ELSE @ \cup {selector}]
  /\ run' = [run EXCEPT !.changed = TRUE]
  /\ UNCHANGED <<parent, objs, behaviors, handlers, selectors, bid, cid, tags,
                 MutationObserver, observers, observer, stack, result,
                 enterCnt, exitCnt, log>>

Depth == Cardinality({j \in DOMAIN stack : stack[j].pc \in {"init", "exit"}})

\* the running init or exit callback calls onmount() or onmount(selector)
NestedPoll(selector) ==
  /\ InCallback(Now) /\ Depth <= MaxDepth
  /\ Becomes(Go(Push(Now, poll(selector))))
  /\ UNCHANGED Fixed

\* the running init or exit callback calls onmount.teardown()
NestedTeardown ==
  /\ InCallback(Now) /\ Depth <= MaxDepth
  /\ Becomes(Go(Push(Now, teardown)))
  /\ UNCHANGED Fixed

\* ---- the document changing (environment) ----------------------------------
Connected == {o \in DOMAIN observers : observers[o].connected}
Room == \A o \in Connected : Len(observers[o].queue) < MaxRecords
Record(kind, el) == [kind |-> kind, el |-> el]
Queue(rec) ==
  [o \in DOMAIN observers |->
     IF observers[o].connected
     THEN [observers[o] EXCEPT !.queue = Append(@, rec)]
     ELSE observers[o]]

removeChild(el) ==
  /\ Idle /\ Room
  /\ parent[el] # Null
  /\ parent' = [parent EXCEPT ![el] = Null]
  /\ observers' = IF isAttached(parent[el]) THEN Queue(Record("removed", el))
                  ELSE observers
  /\ EndRun
  /\ UNCHANGED <<classes, objs, behaviors, handlers, selectors, bid, cid, tags,
                 MutationObserver, observer, stack, result>>

RECURSIVE Ancestor(_, _)
Ancestor(a, el) ==
  IF el \notin Nodes THEN FALSE
  ELSE a = el \/ Ancestor(a, parent[el])

\* the parents the model attaches el under: the root or a lower-numbered node
Parents(el) == {Root} \cup {q \in Nodes : q < el}

appendChild(p, el) ==
  /\ Idle /\ Room
  /\ parent[el] = Null
  /\ ~Ancestor(el, p)
  /\ parent' = [parent EXCEPT ![el] = p]
  /\ observers' = IF isAttached(p) THEN Queue(Record("added", el))
                  ELSE observers
  /\ EndRun
  /\ UNCHANGED <<classes, objs, behaviors, handlers, selectors, bid, cid, tags,
                 MutationObserver, observer, stack, result>>

toggleClass(el, selector) ==
  /\ Idle
  /\ classes' = [classes EXCEPT ![el] =
                   IF selector \in @ THEN @ \ {selector} ELSE @ \cup {selector}]
  /\ EndRun
  /\ UNCHANGED <<parent, objs, behaviors, handlers, selectors, bid, cid, tags,
                 MutationObserver, observers, observer, stack, result>>

\* ---- specifications -------------------------------------------------------
InitWith(mo, cls) ==
  /\ parent = [el \in Nodes |-> Null]
  /\ classes = cls
  /\ objs = <<>>
  /\ behaviors = <<>>
  /\ handlers = <<>>
  /\ selectors = [s \in SelectorNames |-> <<>>]
  /\ bid = 0
  /\ cid = 0
  /\ tags = [el \in Nodes |-> [k \in Keys |-> NoTag]]
  /\ MutationObserver = mo
  /\ observers = <<>>
  /\ observer = 0
  /\ stack = <<>>
  /\ result = "undefined"
  /\ enterCnt = Zero
  /\ exitCnt = Zero
  /\ run = RunIdle
  /\ log = [live |-> {}, paired |-> TRUE, refused |-> {}]

\* a page without MutationObserver
Init == InitWith(FALSE, [el \in Nodes |-> {}])

Callbacks ==
  \/ \E r \in {"undefined", "false"} : InitReturns(r)
  \/ \E r \in {"undefined", "false"} : ExitReturns(r)

\* the registrations tried: with exit, without exit, with detectMutate
Options ==
  {[exit |-> TRUE, detectMutate |-> FALSE],
   [exit |-> FALSE, detectMutate |-> FALSE],
   [exit |-> TRUE, detectMutate |-> TRUE]}

\* behaviors of one selector, polled and torn down by hand
Next ==
  \/ \E o \in Options : Register(".a", o.exit, o.detectMutate)
  \/ PollAll
  \/ Teardown
  \/ Observe
  \/ Callbacks
  \/ \E el \in Nodes : removeChild(el)
  \/ \E el \in Nodes : \E p \in Parents(el) : appendChild(p, el)
  \/ \E el \in Nodes : toggleClass(el, ".a")

Spec == Init /\ [][Next]_vars

\* behaviors of two selectors, polled by selector
NextSelectors ==
  \/ \E s \in SelectorNames : Register(s, TRUE, FALSE)
  \/ PollAll
  \/ \E s \in SelectorNames \cup {""} : PollSelector(s)
  \/ Callbacks
  \/ \E el \in Nodes : removeChild(el)
  \/ \E el \in Nodes : appendChild(Root, el)
  \/ \E el \in Nodes : toggleClass(el, ".b")

\* every node is of class .a; class .b comes and goes
SpecSelectors ==
  InitWith(FALSE, [el \in Nodes |-> {".a"}]) /\ [][NextSelectors]_vars

\* callbacks that call onmount() or onmount(selector) before they return
NextReentrant ==
  \/ \E e \in BOOLEAN : Register(".a", e, FALSE)
  \/ PollAll
  \/ Callbacks
  \/ NestedPoll(NoArg)
  \/ NestedPoll(".a")
  \/ \E el \in Nodes : removeChild(el)
  \/ \E el \in Nodes : \E p \in Parents(el) : appendChild(p, el)
  \/ \E el \in Nodes : toggleClass(el, ".a")

SpecReentrant == Init /\ [][NextReentrant]_vars

\* a page with MutationObserver: onmount.observe() in use next to polls
NextObserve ==
  \/ Register(".a", TRUE, FALSE)
  \/ PollAll
  \/ Teardown
  \/ (observer = 0 /\ Observe)
  \/ \E o \in 1..MaxObservers : Notify(o)
  \/ Callbacks
  \/ \E el \in Nodes : removeChild(el)
  \/ \E el \in Nodes : appendChild(Root, el)

\* every node is of class .a
SpecObserve ==
  InitWith(TRUE, [el \in Nodes |-> {".a"}]) /\ [][NextObserve]_vars

\* onmount.observe() called any number of times, and onmount.unobserve()
NextUnobserve ==
  \/ Register(".a", TRUE, FALSE)
  \/ Observe
  \/ Unobserve
  \/ \E o \in 1..MaxObservers : Notify(o)
  \/ Callbacks
  \/ \E el \in Nodes : removeChild(el)
  \/ \E el \in Nodes : appendChild(Root, el)

SpecUnobserve ==
  InitWith(TRUE, [el \in Nodes |-> {".a"}]) /\ [][NextUnobserve]_vars

\* onmount.reset() between registrations, polls, teardowns and notifications
NextReset ==
  \/ \E s \in SelectorNames : Register(s, TRUE, FALSE)
  \/ Reset
  \/ PollAll
  \/ \E s \in SelectorNames : PollSelector(s)
  \/ Teardown
  \/ (observer = 0 /\ Observe)
  \/ \E o \in 1..MaxObservers : Notify(o)
  \/ \E r \in {"undefined", "false"} : InitReturns(r)
  \/ ExitReturns("undefined")
  \/ \E el \in Nodes : removeChild(el)
  \/ \E el \in Nodes : appendChild(Root, el)

\* every node is of both classes, so that behaviors of different selectors
\* meet on the same nodes
SpecReset ==
  InitWith(TRUE, [el \in Nodes |-> {".a", ".b"}]) /\ [][NextReset]_vars

\* exit callbacks that call onmount(), onmount(selector) or
\* onmount.teardown() before they return
NextReentrantExit ==
  \/ \E d \in BOOLEAN : Register(".a", TRUE, d)
  \/ PollAll
  \/ Teardown
  \/ Callbacks
  \/ (stack # <<>> /\ Top.pc = "exit" /\ NestedPoll(NoArg))
  \/ (stack # <<>> /\ Top.pc = "exit" /\ NestedPoll(".a"))
  \/ (stack # <<>> /\ Top.pc = "exit" /\ NestedTeardown)
  \/ \E el \in Nodes : removeChild(el)
  \/ \E el \in Nodes : appendChild(Root, el)
  \/ \E el \in Nodes : toggleClass(el, ".a")

SpecReentrantExit ==
  InitWith(FALSE, [el \in Nodes |-> {".a"}]) /\ [][NextReentrantExit]_vars

\* callbacks that change the class of a node before they return
NextOrder ==
  \/ \E d \in BOOLEAN : Register(".a", TRUE, d)
  \/ PollAll
  \/ Callbacks
  \/ \E el \in Nodes : CallbackToggle(el, ".a")
  \/ \E el \in Nodes : removeChild(el)
  \/ \E el \in Nodes : appendChild(Root, el)

SpecOrder ==
  InitWith(FALSE, [el \in Nodes |-> {".a"}]) /\ [][NextOrder]_vars

\* callbacks that raise
NextRaise ==
  \/ Register(".a", TRUE, FALSE)
  \/ PollAll
  \/ Callbacks
  \/ Raises
  \/ \E el \in Nodes : removeChild(el)
  \/ \E el \in Nodes : appendChild(Root, el)

SpecRaise ==
  InitWith(FALSE, [el \in Nodes |-> {".a"}]) /\ [][NextRaise]_vars

\* ---- claims ---------------------------------------------------------------
Registered == {behaviors[j] : j \in DOMAIN behaviors}
Objs == DOMAIN objs
selectorOf(k) == objs[k].selector
InQuery(k, el) == has(query(selectorOf(k)), el)
Tagged(k, el) == tags[el][objs[k].key] # NoTag
PollRun == Idle /\ run.kind = "poll"

\* C1 Idempotent enter: when a run of consecutive polls (onmount() or
\* onmount(selector), the document unchanged in between) has returned, init
\* was called exactly once for every node that matches the selector of a
\* polled behavior and carried no tag of it when the run began, and not at
\* all for any other node, provided init did not return false for the pair.
C1_IdempotentEnter ==
  PollRun =>
    \A k \in Objs, el \in Nodes :
      <<k, el>> \notin run.veto =>
        enterCnt[k][el] =
          IF run.passes[k] >= 1 /\ InQuery(k, el) /\ el \notin run.tag0[k]
          THEN 1 ELSE 0

\* two polls of a behavior have returned and init was called once for a node
C1_Witness ==
  /\ PollRun
  /\ \E k \in Objs, el \in Nodes :
       /\ run.passes[k] = 2 /\ run.calls = 2
       /\ enterCnt[k][el] = 1 /\ <<k, el>> \notin run.veto
       /\ InQuery(k, el)

\* C2 Exit fires once on detachment: when a run of consecutive polls has
\* returned, a behavior with an exit action and without detectMutate had its
\* exit action called exactly once for every node that was entered when the
\* run began and is detached, and not at all for any other node.
C2_ExitOnceOnDetach ==
  PollRun =>
    \A k \in Objs, el \in Nodes :
      (objs[k].exit /\ ~objs[k].detectMutate) =>
        exitCnt[k][el] =
          IF run.passes[k] >= 1 /\ el \in run.active0[k] /\ ~isAttached(el)
          THEN 1 ELSE 0

\* both nodes were entered, one was detached: after two polls its exit was
\* called once and the other node's not at all
C2_Witness ==
  /\ PollRun
  /\ \E k \in Objs, a \in Nodes, b \in Nodes :
       /\ objs[k].exit /\ ~objs[k].detectMutate
       /\ run.passes[k] = 2
       /\ {a, b} \subseteq run.active0[k] /\ a # b
       /\ ~isAttached(a) /\ isAttached(b)
       /\ exitCnt[k][a] = 1 /\ exitCnt[k][b] = 0

\* C3 Enter-action veto: when a run of polls has returned and the latest init
\* call for a node returned false, the node carries no tag of the behavior,
\* is not in its active list, and init was called for it in every pass of
\* the behavior's poll closure in the run.
C3_EnterVeto ==
  PollRun =>
    \A k \in Objs, el \in Nodes :
      <<k, el>> \in run.last =>
        /\ ~Tagged(k, el)
        /\ el \notin active(k)
        /\ enterCnt[k][el] = run.passes[k]

\* init returned false for a node in two consecutive polls
C3_Witness ==
  /\ PollRun
  /\ \E k \in Objs, el \in Nodes :
       /\ <<k, el>> \in run.last
       /\ run.passes[k] = 2 /\ enterCnt[k][el] = 2

\* C4 detectMutate semantics: when a poll run has returned, a node that was
\* entered when the run began has been exited (tombstoned, its exit action
\* called once if there is one) if and only if, with detectMutate, it is not
\* in the query result, or, without detectMutate, it is not attached.
ExitDue(k, el) ==
  IF objs[k].detectMutate THEN ~InQuery(k, el) ELSE ~isAttached(el)

C4_DetectMutate ==
  PollRun =>
    \A k \in Objs, el \in Nodes :
      (run.passes[k] >= 1 /\ el \in run.active0[k]) =>
        /\ el \notin active(k) <=> ExitDue(k, el)
        /\ objs[k].exit => (exitCnt[k][el] = IF ExitDue(k, el) THEN 1 ELSE 0)

\* a node lost its class but is still attached: the behavior with
\* detectMutate exited it, the behavior without did not
C4_Witness ==
  /\ PollRun
  /\ \E k1 \in Objs, k2 \in Objs, el \in Nodes :
       /\ objs[k1].detectMutate /\ ~objs[k2].detectMutate
       /\ objs[k1].exit /\ objs[k2].exit
       /\ run.passes[k1] >= 1 /\ run.passes[k2] >= 1
       /\ el \in run.active0[k1] /\ el \in run.active0[k2]
       /\ isAttached(el) /\ ~InQuery(k1, el) /\ ~InQuery(k2, el)
       /\ exitCnt[k1][el] = 1 /\ exitCnt[k2][el] = 0
       /\ el \notin active(k1) /\ el \in active(k2)

\* C5 Teardown exits everything: when a run of consecutive teardown() calls
\* has returned, the exit action of every registered behavior that has one
\* was called exactly once for every node entered when the run began and for
\* no other node, whether attached or not, and every active list holds only
\* tombstones; so a second teardown() calls no exit action.
C5_TeardownExitsAll ==
  (Idle /\ run.kind = "teardown") =>
    \A k \in Registered :
      /\ active(k) = {}
      /\ \A el \in Nodes :
           objs[k].exit =>
             exitCnt[k][el] = IF el \in run.active0[k] THEN 1 ELSE 0

\* two behaviors had entered nodes, one attached and one detached; teardown()
\* was called twice and each exit was called once
C5_Witness ==
  /\ Idle /\ run.kind = "teardown" /\ run.calls = 2
  /\ \E k1 \in Registered, k2 \in Registered, a \in Nodes, b \in Nodes :
       /\ k1 # k2 /\ objs[k1].exit /\ objs[k2].exit
       /\ a \in run.active0[k1] /\ b \in run.active0[k2]
       /\ isAttached(a) /\ ~isAttached(b)
       /\ exitCnt[k1][a] = 1 /\ exitCnt[k2][b] = 1

\* C6 Selector-scoped poll isolation: while and after one call onmount(s), a
\* behavior registered under another selector has none of its code running,
\* no init or exit call, and its active list and tags as before; when the
\* call has returned, the poll closure of every behavior registered under s
\* has run once.
C6_SelectorIsolation ==
  \A s \in SelectorNames \cup {""} :
    (run.kind = "poll" /\ run.calls = 1 /\ run.arg = s) =>
      /\ \A k \in Objs :
           selectorOf(k) # s =>
             /\ run.passes[k] = 0
             /\ \A j \in DOMAIN stack : stack[j].be # k
             /\ \A el \in Nodes : enterCnt[k][el] = 0 /\ exitCnt[k][el] = 0
             /\ active(k) = run.active0[k]
             /\ tagged(k) = run.tag0[k]
      /\ Idle => \A k \in Registered : selectorOf(k) = s => run.passes[k] = 1

\* C7 Correlation id uniqueness: no two state tags attached to nodes carry
\* the same correlation id.
C7_UniqueIds ==
  \A k1 \in Objs, k2 \in Objs, e1 \in Nodes, e2 \in Nodes :
    (Tagged(k1, e1) /\ Tagged(k2, e2) /\ <<k1, e1>> # <<k2, e2>>) =>
      tags[e1][objs[k1].key].id # tags[e2][objs[k2].key].id

\* C8 Enter/exit pairing: the exit action is only ever called for a pair
\* (behavior, node) whose latest completed action was an accepted init, and
\* an init is only accepted for a pair that is not entered.
C8_Pairing == log.paired

\* C9 Exit clears the tag: when no call is in progress, a node that carries a
\* behavior's tag without being in its active list (it went through exit
\* processing) is one whose exit action returned false.
C9_ExitClearsTag ==
  Idle =>
    \A k \in Objs, el \in Nodes :
      (Tagged(k, el) /\ el \notin active(k)) => <<k, el>> \in log.refused

\* C10 Missing MutationObserver is tolerated: onmount.observe() then returns
\* undefined at once and leaves every behavior, active list, tag, counter and
\* subscription as it was, so later polls act as if it had not been called.
C10_ObserveUnavailable ==
  [][(Observe /\ ~MutationObserver) =>
       (UNCHANGED prog /\ stack' = <<>> /\ result' = "undefined"
        /\ log' = log)]_vars

\* observe() has returned undefined on a page where a node is entered
C10_Witness ==
  /\ Idle /\ run.kind = "observe" /\ ~MutationObserver
  /\ result = "undefined"
  /\ observers = <<>> /\ observer = 0
  /\ \E k \in Registered, el \in Nodes : Tagged(k, el) /\ el \in active(k)

\* C11 unobserve stops delivery: while onmount.observer is absent (no
\* observe() since the last unobserve()), no MutationObserver created by
\* observe() is still connected and no notification is processed.
C11_UnobserveStops ==
  observer = 0 => (Connected = {} /\ run.kind # "notify")

\* C12 reset discards without exiting: onmount.reset() empties behaviors,
\* selectors and handlers, calls no init or exit action and leaves every tag
\* and active list as it was; from then on no code of a behavior registered
\* before the reset runs, whatever is called: no frame of such a behavior is
\* on the stack and none of its actions has been called in the current run.
C12_ResetDiscards ==
  /\ [](/\ \A j \in DOMAIN stack : stack[j].be # 0 => stack[j].be \in Registered
        /\ \A k \in Objs \ Registered :
             /\ run.passes[k] = 0
             /\ \A el \in Nodes : enterCnt[k][el] = 0 /\ exitCnt[k][el] = 0)
  /\ [][Reset =>
          /\ behaviors' = <<>> /\ handlers' = <<>>
          /\ selectors' = [s \in SelectorNames |-> <<>>]
          /\ stack' = <<>>
          /\ UNCHANGED <<objs, tags, cid, bid, log, observers, observer>>]_vars

\* after a reset and a later poll, a discarded behavior still has a detached
\* node entered and tagged that was never exited, while a behavior registered
\* after the reset has been polled
C12_Witness ==
  /\ Idle /\ run.kind = "poll"
  /\ \E k \in Objs \ Registered, el \in Nodes :
       el \in active(k) /\ Tagged(k, el) /\ ~isAttached(el)
  /\ \E k \in Registered : run.passes[k] >= 1

\* C13 Behaviors are independent: the tag keys of distinct behaviors differ,
\* also across onmount.reset(); and a behavior's tag on a node, or the node's
\* presence in its active list, only changes through that behavior's own
\* action for that node: a tag is set or removed, and a node appended, when
\* the behavior's own init or exit callback for the node returns, and a node
\* is tombstoned when the behavior's own exit action is called for it.
Occurrences(k, el) ==
  Cardinality({j \in DOMAIN objs[k].loaded : objs[k].loaded[j] = el})

C13_Independent ==
  /\ [](\A k1 \in Objs, k2 \in Objs : k1 # k2 => objs[k1].key # objs[k2].key)
  /\ [][\A k \in Objs, el \in Nodes :
          /\ tags'[el][objs[k].key] # tags[el][objs[k].key] =>
               (stack # <<>> /\ Top.pc \in {"init", "exit"}
                /\ Top.be = k /\ Top.el = el)
          /\ Occurrences(k, el)' > Occurrences(k, el) =>
               (stack # <<>> /\ Top.pc = "init" /\ Top.be = k /\ Top.el = el)
          /\ Occurrences(k, el)' < Occurrences(k, el) =>
               (stack' # <<>> /\ Top'.pc = "exit" /\ Top'.be = k /\ Top'.el = el)
       ]_vars

\* two behaviors of one selector both entered a node; the exit action of one
\* has returned and cleared its tag while the other's exit action is running
\* and its tag is still in place
C13_Witness ==
  /\ stack # <<>> /\ Top.pc = "exit"
  /\ \E k \in Objs \ {Top.be} :
       /\ selectorOf(k) = selectorOf(Top.be)
       /\ ~Tagged(k, Top.el) /\ Top.el \notin active(k)
       /\ Tagged(Top.be, Top.el)
       /\ cid = 2

\* C14 Tag/active-list invariant: in every state in which no exit action is
\* executing, a node carries a behavior's tag if and only if it appears
\* exactly once in the behavior's active list, and no node appears twice in
\* an active list.  (Stated here leaving aside the pairs whose exit action
\* returned false, which keep their tag by design.)
C14_TagActiveInvariant ==
  (\A j \in DOMAIN stack : stack[j].pc # "exit") =>
    \A k \in Objs, el \in Nodes :
      /\ Occurrences(k, el) <= 1
      /\ <<k, el>> \notin log.refused =>
           (Tagged(k, el) <=> Occurrences(k, el) = 1)

\* C15 Re-entrant poll during enter is safe: when an init callback has called
\* onmount() or onmount(selector) before returning, then once the outer call
\* has returned the node appears at most once in the behavior's active list
\* (and carries one tag, that of its one entry).
C15_ReentrantEnter ==
  Idle =>
    \A k \in Objs, el \in Nodes :
      /\ Occurrences(k, el) <= 1
      /\ Occurrences(k, el) = 1 => Tagged(k, el)

\* C16 Re-entrant poll during exit is safe: with exit callbacks that call
\* onmount(), onmount(selector) or onmount.teardown() before returning, the
\* exit action is never called for a node while an exit call of the same
\* behavior for it is still running, nor otherwise for a node that is not
\* entered; and when the outer poll has returned, every node that was
\* entered and is detached has been exited and is out of the active list.
C16_ReentrantExit ==
  /\ log.paired
  /\ \A i \in DOMAIN stack, j \in DOMAIN stack :
       (i < j /\ stack[i].pc = "exit" /\ stack[j].pc = "exit") =>
         <<stack[i].be, stack[i].el>> # <<stack[j].be, stack[j].el>>
  /\ PollRun =>
       \A k \in Objs, el \in Nodes :
         (run.passes[k] >= 1 /\ el \in run.active0[k] /\ ~isAttached(el)) =>
           (exitCnt[k][el] >= 1 /\ el \notin active(k))

\* an exit callback has called onmount(); the nested pass of the same
\* behavior went past the tombstone of the node being exited and reached an
\* init callback, the exit action having been called once for the node
C16_Witness ==
  \E i \in DOMAIN stack, j \in DOMAIN stack :
    /\ i < j /\ stack[i].pc = "exit"
    /\ stack[j].pc = "visitEnter" /\ stack[j].be = stack[i].be
    /\ Top.pc = "init"
    /\ run.kind = "poll"
    /\ exitCnt[stack[i].be][stack[i].el] = 1
    /\ Tagged(stack[i].be, stack[i].el)

\* C17 Exit-then-enter ordering: during the first pass of a behavior's poll
\* closure in a poll (no re-entrant call), when its exit action is called no
\* init of the pass has been called yet and the exits so far are those of
\* earlier positions of the active list as it was when the pass began; when
\* its init is called, the node is in the query result taken when the pass
\* began (whatever the document is now) and the inits so far are exactly
\* those of the untagged nodes up to it in that result.
C17_ExitThenEnter ==
  \A k \in Objs :
    (run.kind = "poll" /\ run.calls = 1 /\ run.passes[k] = 0
     /\ stack # <<>> /\ Top.be = k) =>
      LET list == run.list0[k]
          loaded == run.loaded0[k]
      IN /\ Top.pc = "exit" =>
              /\ \A e \in Nodes : enterCnt[k][e] = 0
              /\ has(loaded, Top.el)
              /\ \A e \in Nodes :
                   exitCnt[k][e] >= 1 =>
                     /\ has(loaded, e)
                     /\ indexOf(loaded, e) <= indexOf(loaded, Top.el)
         /\ Top.pc = "init" =>
              /\ has(list, Top.el)
              /\ \A e \in Nodes :
                   enterCnt[k][e] >= 1 <=>
                     /\ has(list, e)
                     /\ indexOf(list, e) <= indexOf(list, Top.el)
                     /\ e \notin run.tag0[k]

\* in one pass the exit action was called for one node and then init for
\* another, which the exit callback had meanwhile taken out of the selector
C17_Witness ==
  /\ stack # <<>> /\ Top.pc = "init"
  /\ run.kind = "poll" /\ run.calls = 1 /\ run.passes[Top.be] = 0
  /\ ~InQuery(Top.be, Top.el)
  /\ \E a \in Nodes \ {Top.el} : exitCnt[Top.be][a] = 1

\* C18 Exit returning false: a node whose exit action returned false keeps
\* its tag and is out of the active list; and when a run of polls has
\* returned, neither init nor exit of the behavior was called in it for a
\* node that was in that condition when the run began, whether or not the
\* node is attached and matches again.
C18_ExitRefused ==
  \A k \in Objs, el \in Nodes :
    <<k, el>> \in log.refused =>
      /\ Tagged(k, el)
      /\ el \notin active(k)
      /\ (PollRun /\ el \in run.tag0[k] \ run.active0[k]) =>
           (enterCnt[k][el] = 0 /\ exitCnt[k][el] = 0)

\* the exit action returned false for a node; it was attached again, matches
\* the selector, and the behavior has been polled since
C18_Witness ==
  /\ PollRun
  /\ \E k \in Objs, el \in Nodes :
       /\ <<k, el>> \in log.refused
       /\ el \in run.tag0[k] \ run.active0[k]
       /\ InQuery(k, el)
       /\ run.passes[k] >= 1

\* C19 Action failure: when an init or exit callback raises during a poll,
\* the public call is left at once with the failure: no further init or exit
\* is called and no further pass completes; the behaviors' active lists, the
\* tags and cid are as they were when the callback was called, so what was
\* done for earlier nodes is kept and a node whose init raised is untagged
\* and not in the active list.  A later poll then calls init for every
\* matching node that is untagged, the one whose init raised included.
C19_ActionFailure ==
  /\ [](PollRun /\ ~run.changed =>
          \A k \in Objs, el \in Nodes :
            (run.passes[k] >= 1 /\ InQuery(k, el) /\ el \notin run.tag0[k]) =>
              enterCnt[k][el] >= 1)
  /\ [][Raises =>
          /\ stack' = <<>> /\ result' = "raised"
          /\ enterCnt' = enterCnt /\ exitCnt' = exitCnt
          /\ run'.passes = run.passes
          /\ UNCHANGED <<objs, tags, cid, log>>
          /\ Top.pc = "init" =>
               /\ tags[Top.el][objs[Top.be].key] = NoTag
               /\ Top.el \notin active(Top.be)]_vars

\* a poll was left by the failure of the init of one node: the node entered
\* before it in the pass is tagged, the node itself is not, and a second
\* behavior matching the same nodes was not reached
C19_Witness ==
  /\ Idle /\ result = "raised" /\ run.kind = "poll" /\ run.calls = 1
  /\ \E k \in Registered, a \in Nodes, b \in Nodes :
       /\ a # b
       /\ Tagged(k, a) /\ a \in active(k) /\ enterCnt[k][a] = 1
       /\ ~Tagged(k, b) /\ b \notin active(k) /\ enterCnt[k][b] = 1
       /\ <<k, b>> \notin run.veto
       /\ \E k2 \in Registered \ {k} :
            /\ InQuery(k2, a) /\ ~Tagged(k2, a)
            /\ \A e \in Nodes : enterCnt[k2][e] = 0

\* C20 Exit receives the matching enter token: whenever an exit action is
\* running, the state argument it was called with is present, names the
\* behavior's selector, and is the token the node was tagged with at its
\* latest accepted enter for the behavior.
C20_ExitToken ==
  \A j \in DOMAIN stack :
    stack[j].pc = "exit" =>
      /\ stack[j].opt # NoTag
      /\ stack[j].opt.selector = selectorOf(stack[j].be)
      /\ stack[j].opt = tags[stack[j].el][objs[stack[j].be].key]

====
